---- MODULE Spec2Model ----
(***************************************************************************)
(* PDF text extraction: the HTTP front end (pdf-service/app.py) and the    *)
(* batch front end (scripts/extract_pdf.py).                               *)
(*                                                                         *)
(* A string is a sequence of characters; the empty string is <<>>.  The    *)
(* character "ue" stands for one non-ASCII code point (U+00FC).  Fixed     *)
(* message texts and library diagnostics are kept as one token each, so a  *)
(* message is empty exactly when its sequence is empty.                    *)
(*                                                                         *)
(* The parsing library (PyPDF2) is a collaborator whose behaviour is a     *)
(* function of the bytes it is given: a document says whether it opens,    *)
(* what text each page yields, where extraction raises, and what its info  *)
(* dictionary holds.                                                       *)
(***************************************************************************)
EXTENDS Integers, Sequences, FiniteSets, TLC

MaxPages == 2

-----------------------------------------------------------------------------
(* Strings *)

Whitespace == {" ", "\n"}

NonAscii == {"ue"}

RECURSIVE LStrip(_)
LStrip(s) == IF s # <<>> /\ Head(s) \in Whitespace THEN LStrip(Tail(s)) ELSE s

RECURSIVE RStrip(_)
RStrip(s) ==
    IF s # <<>> /\ s[Len(s)] \in Whitespace
    THEN RStrip(SubSeq(s, 1, Len(s) - 1))
    ELSE s

Strip(s) == RStrip(LStrip(s))

LowerChar(c) ==
    CASE c = "A" -> "a"
      [] c = "P" -> "p"
      [] c = "D" -> "d"
      [] c = "F" -> "f"
      [] OTHER -> c

Lower(s) == [i \in 1..Len(s) |-> LowerChar(s[i])]

EndsWith(s, suffix) ==
    /\ Len(s) >= Len(suffix)
    /\ SubSeq(s, Len(s) - Len(suffix) + 1, Len(s)) = suffix

PdfSuffix == <<".", "p", "d", "f">>

-----------------------------------------------------------------------------
(* The parsing library *)

PageTexts == { <<>>, <<" ">>, <<"ue">>, <<" ", "b", " ">> }

PageSeqs == UNION { [1..n -> PageTexts] : n \in 0..MaxPages }

Diags == { <<>>, <<"EOF marker not found">> }

PageDiag == <<"could not decode page">>

MetaDiag == <<"invalid info dictionary">>

NoFault == [at |-> "none", idx |-> 0]

NoInfo == [present |-> FALSE, entries |-> <<>>]

TitleInfo == [present |-> TRUE, entries |-> [k \in {"/Title"} |-> <<"T">>]]

Infos == {NoInfo, TitleInfo}

Docs ==
    { [pages |-> <<>>, fault |-> [at |-> "open", idx |-> 0], diag |-> d,
       info |-> NoInfo] : d \in Diags }
    \cup { [pages |-> p, fault |-> NoFault, diag |-> <<>>, info |-> i] :
             p \in PageSeqs, i \in Infos }
    \cup UNION { { [pages |-> p, fault |-> [at |-> "page", idx |-> k],
                    diag |-> PageDiag, info |-> NoInfo] : k \in 1..Len(p) } :
                 p \in PageSeqs }
    \cup { [pages |-> p, fault |-> [at |-> "meta", idx |-> 0],
            diag |-> MetaDiag, info |-> TitleInfo] : p \in PageSeqs }

\* The documents whose results are compared across calls: one of each
\* outcome, single-page and multi-page.
ProbeDocs ==
    { [pages |-> <<>>, fault |-> [at |-> "open", idx |-> 0],
       diag |-> <<"EOF marker not found">>, info |-> NoInfo],
      [pages |-> << <<" ">> >>, fault |-> NoFault, diag |-> <<>>, info |-> NoInfo],
      [pages |-> << <<" ", "b", " ">>, <<"ue">> >>, fault |-> NoFault,
       diag |-> <<>>, info |-> TitleInfo],
      [pages |-> << <<"ue">>, <<" ", "b", " ">> >>,
       fault |-> [at |-> "page", idx |-> 2], diag |-> PageDiag, info |-> NoInfo],
      [pages |-> << <<"ue">> >>, fault |-> [at |-> "meta", idx |-> 0],
       diag |-> MetaDiag, info |-> TitleInfo] }

SampleDoc == [pages |-> << <<"ue">> >>, fault |-> NoFault, diag |-> <<>>,
              info |-> NoInfo]

\* PyPDF2.PdfReader(io.BytesIO(bytes)) raises on bytes it cannot open.
PdfReaderRaises(doc) == doc.fault.at = "open"

\* pdf_reader.pages[page_num].extract_text(), page_num counted from 0.
ExtractTextRaises(doc, page_num) ==
    doc.fault.at = "page" /\ doc.fault.idx = page_num + 1

ExtractText(doc, page_num) == doc.pages[page_num + 1]

\* pdf_reader.metadata
MetadataRaises(doc) == doc.fault.at = "meta"

\* pdf_reader.metadata.get(key, '') if pdf_reader.metadata else ''
MetadataGet(doc, key) ==
    IF doc.info.present /\ DOMAIN doc.info.entries # {}
    THEN IF key \in DOMAIN doc.info.entries THEN doc.info.entries[key] ELSE <<>>
    ELSE <<>>

-----------------------------------------------------------------------------
(* Inputs of the two front ends *)

PdfName == <<"a", ".", "p", "d", "f">>

Filenames ==
    { <<>>, PdfName, <<"A", ".", "P", "D", "F">>, <<"n", ".", "t", "x", "t">>,
      <<"p", "d", "f">>, <<"a", ".", "p", "d", "f", "x">> }

NoFile == [present |-> FALSE, filename |-> <<>>, content |-> SampleDoc,
           readable |-> TRUE]

Uploads ==
    {NoFile}
    \cup { [present |-> TRUE, filename |-> PdfName, content |-> d,
            readable |-> TRUE] : d \in Docs }
    \cup { [present |-> TRUE, filename |-> f, content |-> SampleDoc,
            readable |-> TRUE] : f \in Filenames }
    \cup { [present |-> TRUE, filename |-> f, content |-> SampleDoc,
            readable |-> FALSE] : f \in {PdfName, <<"n", ".", "t", "x", "t">>} }

ReadDiag == <<"read error">>

\* What the process finds on standard input and how its standard output
\* encodes: decodable is whether sys.stdin.read() can decode the bytes,
\* lead_ws whether the text is wrapped in whitespace, kind what is left
\* after trimming (nothing, base64 with incorrect padding, or the base64
\* of data), ascii_stdout whether stdout can encode ASCII only.
StdinDiag == <<"invalid start byte">>

PaddingDiag == <<"Incorrect padding">>

EncodeDiag == <<"codec can't encode character">>

BatchInputs ==
    { [decodable |-> dec, lead_ws |-> ws, kind |-> k, data |-> SampleDoc,
       ascii_stdout |-> FALSE] :
         dec \in BOOLEAN, ws \in BOOLEAN, k \in {"empty", "badpad", "b64"} }
    \cup { [decodable |-> TRUE, lead_ws |-> FALSE, kind |-> "b64", data |-> d,
            ascii_stdout |-> a] : d \in Docs, a \in BOOLEAN }

NoInput == [decodable |-> TRUE, lead_ws |-> FALSE, kind |-> "empty",
            data |-> SampleDoc, ascii_stdout |-> FALSE]

\* sys.stdin.read().strip()
StdinStrip(b) == [b EXCEPT !.lead_ws = FALSE]

\* base64.b64decode(input_data)
B64DecodeRaises(input_data) == input_data.kind = "badpad"

B64Decode(input_data) == input_data.data

-----------------------------------------------------------------------------
(* State *)

VARIABLES
    program,         \* "server" (app.py) or "script" (extract_pdf.py): what this run is
    pc,              \* "idle", "http_pages", "http_done", "batch_exited"
    upload,          \* request.files of the HTTP request being handled
    reads,           \* file.read() calls made by that request
    opens,           \* PdfReader constructions made by that request
    response,        \* <<>> or <<[status, body]>>: what that request returned
    batch_in,        \* stdin and stdout encoding of the batch run that has just ended
    result,          \* <<>> or <<dict>>: what extract_pdf_text returned to main
    stdout,          \* the JSON documents main has printed
    exit_code,       \* <<>> while running, <<0>> or <<1>> once the process has ended
    path,            \* which print statement of main ran last ("" when none)
    extracted_text,  \* local of the HTTP handler
    page_count,      \* local of the HTTP handler
    page_num,        \* local of the HTTP handler
    probe,           \* the bytes whose results the server is watched on
    first,           \* <<>> or <<summary>>: the server's first result for probe
    again            \* the server has extracted probe a second time

vars == <<program, pc, upload, reads, opens, response, batch_in, result, stdout,
          exit_code, path, extracted_text, page_count, page_num, probe, first,
          again>>

locals == <<extracted_text, page_count, page_num>>

httpIO == <<upload, reads, opens, response>>

batchIO == <<batch_in, result, stdout, exit_code, path>>

history == <<program, probe, first, again>>

Opt(r, f) == IF f \in DOMAIN r THEN <<r[f]>> ELSE <<>>

\* The fields two extraction results are compared on.
Summary(r, textKey) ==
    [success |-> Opt(r, "success"), pages |-> Opt(r, "pages"),
     text |-> Opt(r, textKey), text_length |-> Opt(r, "text_length")]

Init ==
    /\ program \in {"server", "script"}
    /\ pc = "idle"
    /\ upload = NoFile
    /\ reads = 0
    /\ opens = 0
    /\ response = <<>>
    /\ batch_in = NoInput
    /\ result = <<>>
    /\ stdout = <<>>
    /\ exit_code = <<>>
    /\ path = ""
    /\ extracted_text = <<>>
    /\ page_count = 0
    /\ page_num = 0
    /\ probe \in IF program = "server" THEN ProbeDocs ELSE {SampleDoc}
    /\ first = <<>>
    /\ again = FALSE

-----------------------------------------------------------------------------
(* Bookkeeping shared by the actions *)

\* A new invocation replaces the record of the previous one.
ClearHttp ==
    /\ upload' = NoFile
    /\ reads' = 0
    /\ opens' = 0
    /\ response' = <<>>

ClearBatch ==
    /\ batch_in' = NoInput
    /\ result' = <<>>
    /\ stdout' = <<>>
    /\ exit_code' = <<>>
    /\ path' = ""

\* The first result for probe is kept; a later call on probe is noted.
Track(doc, summary) ==
    /\ first' = IF doc = probe /\ first = <<>> THEN <<summary>> ELSE first
    /\ again' = (again \/ (doc = probe /\ first # <<>>))
    /\ UNCHANGED <<program, probe>>

TrackHttp(doc, body) == Track(doc, Summary(body, "extracted_text"))

-----------------------------------------------------------------------------
(* The extraction loop of the HTTP handler.  The model keeps the last values *)
(* of the handler's locals between requests: it is the handler's own         *)
(* initialisation that has to make a request independent of the one before.  *)

\* The buffer is not set up anew: it still holds what the last request left.
StaleText == extracted_text

\* extracted_text = ""
InitialText == <<>>

\* The page is put in front of the buffer instead of behind it.
AppendPageInFront(text, page_text) == page_text \o <<"\n">> \o text

\* extracted_text += page_text + "\n"
AppendPage(text, page_text) == text \o page_text \o <<"\n">>

\* if page_text.strip(): extracted_text += page_text + "\n"
Accumulate(text, page_text) ==
    IF Strip(page_text) # <<>> THEN AppendPage(text, page_text) ELSE text

-----------------------------------------------------------------------------
(* HTTP front end: POST /extract *)

\* The suffix is compared as it is, without .lower().
ValidateCaseSensitive(u) ==
    IF ~u.present THEN <<"No file provided">>
    ELSE IF u.filename = <<>> THEN <<"No file selected">>
    ELSE IF ~EndsWith(u.filename, PdfSuffix) THEN <<"File must be a PDF">>
    ELSE <<>>

\* The three checks, in the order the handler makes them: <<>> when all pass,
\* else the error of the first one that fails.
Validate(u) ==
    IF ~u.present THEN <<"No file provided">>
    ELSE IF u.filename = <<>> THEN <<"No file selected">>
    ELSE IF ~EndsWith(Lower(u.filename), PdfSuffix) THEN <<"File must be a PDF">>
    ELSE <<>>

ProcessingFailed(filename, diag) ==
    [status |-> 500,
     body |-> [success |-> FALSE,
               error |-> <<"PDF processing failed: ">> \o diag,
               filename |-> filename]]

RequestFailed(diag) ==
    [status |-> 500, body |-> [error |-> <<"Request processing failed: ">> \o diag]]

\* The empty-text outcome is answered with an error status.
NoTextAsError(filename, pages) ==
    [status |-> 422,
     body |-> [success |-> FALSE,
               error |-> <<"No text found in PDF">>,
               filename |-> filename,
               pages |-> pages,
               text_length |-> 0,
               extracted_text |-> <<>>,
               suggestion |-> <<"PDF may be scanned or image-based. OCR processing required.">>]]

NoTextResponse(filename, pages) ==
    [status |-> 200,
     body |-> [success |-> FALSE,
               error |-> <<"No text found in PDF">>,
               filename |-> filename,
               pages |-> pages,
               text_length |-> 0,
               extracted_text |-> <<>>,
               suggestion |-> <<"PDF may be scanned or image-based. OCR processing required.">>]]

SuccessResponse(filename, pages, text, doc) ==
    [status |-> 200,
     body |-> [success |-> TRUE,
               filename |-> filename,
               pages |-> pages,
               text_length |-> Len(text),
               extracted_text |-> text,
               metadata |-> [title |-> MetadataGet(doc, "/Title"),
                             author |-> MetadataGet(doc, "/Author"),
                             subject |-> MetadataGet(doc, "/Subject")]]]

\* A check fails: 400, nothing read, nothing parsed.
HttpReject(u) ==
    /\ program = "server"
    /\ pc = "idle"
    /\ Validate(u) # <<>>
    /\ pc' = "http_done"
    /\ upload' = u
    /\ reads' = 0
    /\ opens' = 0
    /\ response' = <<[status |-> 400, body |-> [error |-> Validate(u)]]>>
    /\ UNCHANGED <<locals, batchIO, history>>

\* file.read() raises: the outer handler answers.
HttpReadError(u) ==
    /\ program = "server"
    /\ pc = "idle"
    /\ Validate(u) = <<>>
    /\ ~u.readable
    /\ pc' = "http_done"
    /\ upload' = u
    /\ reads' = 1
    /\ opens' = 0
    /\ response' = <<RequestFailed(ReadDiag)>>
    /\ UNCHANGED <<locals, batchIO, history>>

\* PyPDF2.PdfReader raises: the inner handler answers.
HttpOpenError(u) ==
    /\ program = "server"
    /\ pc = "idle"
    /\ Validate(u) = <<>>
    /\ u.readable
    /\ PdfReaderRaises(u.content)
    /\ pc' = "http_done"
    /\ upload' = u
    /\ reads' = 1
    /\ opens' = 1
    /\ response' = <<ProcessingFailed(u.filename, u.content.diag)>>
    /\ TrackHttp(u.content, ProcessingFailed(u.filename, u.content.diag).body)
    /\ UNCHANGED <<locals, batchIO>>

\* The document opens: the page loop starts.
HttpOpen(u) ==
    /\ program = "server"
    /\ pc = "idle"
    /\ Validate(u) = <<>>
    /\ u.readable
    /\ ~PdfReaderRaises(u.content)
    /\ pc' = "http_pages"
    /\ upload' = u
    /\ reads' = 1
    /\ opens' = 1
    /\ response' = <<>>
    /\ extracted_text' = InitialText
    /\ page_count' = Len(u.content.pages)
    /\ page_num' = 0
    /\ UNCHANGED <<batchIO, history>>

\* One iteration of the page loop.
HttpPage ==
    /\ pc = "http_pages"
    /\ page_num < page_count
    /\ ~ExtractTextRaises(upload.content, page_num)
    /\ extracted_text' = Accumulate(extracted_text, ExtractText(upload.content, page_num))
    /\ page_num' = page_num + 1
    /\ UNCHANGED <<pc, page_count, httpIO, batchIO, history>>

\* page.extract_text() raises: the inner handler answers.
HttpPageError ==
    /\ pc = "http_pages"
    /\ page_num < page_count
    /\ ExtractTextRaises(upload.content, page_num)
    /\ pc' = "http_done"
    /\ response' = <<ProcessingFailed(upload.filename, upload.content.diag)>>
    /\ TrackHttp(upload.content,
                 ProcessingFailed(upload.filename, upload.content.diag).body)
    /\ UNCHANGED <<upload, reads, opens, locals, batchIO>>

\* The loop is over and the trimmed text is empty.
HttpNoText ==
    /\ pc = "http_pages"
    /\ page_num = page_count
    /\ Strip(extracted_text) = <<>>
    /\ extracted_text' = Strip(extracted_text)
    /\ pc' = "http_done"
    /\ response' = <<NoTextResponse(upload.filename, page_count)>>
    /\ TrackHttp(upload.content, NoTextResponse(upload.filename, page_count).body)
    /\ UNCHANGED <<upload, reads, opens, page_count, page_num, batchIO>>

\* The loop is over, there is text, and the metadata can be read.
HttpSuccess ==
    /\ pc = "http_pages"
    /\ page_num = page_count
    /\ Strip(extracted_text) # <<>>
    /\ ~MetadataRaises(upload.content)
    /\ extracted_text' = Strip(extracted_text)
    /\ pc' = "http_done"
    /\ response' = <<SuccessResponse(upload.filename, page_count,
                                     Strip(extracted_text), upload.content)>>
    /\ TrackHttp(upload.content,
                 SuccessResponse(upload.filename, page_count,
                                 Strip(extracted_text), upload.content).body)
    /\ UNCHANGED <<upload, reads, opens, page_count, page_num, batchIO>>

\* The loop is over, there is text, and reading the metadata raises.
HttpMetadataError ==
    /\ pc = "http_pages"
    /\ page_num = page_count
    /\ Strip(extracted_text) # <<>>
    /\ MetadataRaises(upload.content)
    /\ extracted_text' = Strip(extracted_text)
    /\ pc' = "http_done"
    /\ response' = <<ProcessingFailed(upload.filename, upload.content.diag)>>
    /\ TrackHttp(upload.content,
                 ProcessingFailed(upload.filename, upload.content.diag).body)
    /\ UNCHANGED <<upload, reads, opens, page_count, page_num, batchIO>>

\* The response has gone out: the server waits for the next request.
HttpServed ==
    /\ pc = "http_done"
    /\ pc' = "idle"
    /\ ClearHttp
    /\ UNCHANGED <<locals, batchIO, history>>

-----------------------------------------------------------------------------
(* Batch front end: extract_pdf_text(pdf_data) and main(), one process per  *)
(* run.                                                                      *)

ErrorDoc(message) ==
    [success |-> FALSE, error |-> message, text |-> <<>>, pages |-> 0,
     text_length |-> 0]

\* text_length is taken before the text is trimmed.
ResultDictRawLength(text, pages) ==
    [success |-> TRUE, text |-> Strip(text), pages |-> pages,
     text_length |-> Len(text)]

\* The dict extract_pdf_text returns when its try block completes.
ResultDict(text, pages) ==
    [success |-> TRUE, text |-> Strip(text), pages |-> pages,
     text_length |-> Len(Strip(text))]

\* The dict extract_pdf_text returns from its except clause.
FailureDict(diag) ==
    [success |-> FALSE, error |-> diag, text |-> <<>>, pages |-> 0,
     text_length |-> 0]

\* if page_text.strip(): extracted_text += page_text + "\n"
BatchAccumulate(text, page_text) ==
    IF Strip(page_text) # <<>> THEN text \o page_text \o <<"\n">> ELSE text

\* for page_num in range(len(pdf_reader.pages)): ...
RECURSIVE ExtractLoop(_, _, _)
ExtractLoop(doc, num, text) ==
    IF num = Len(doc.pages) THEN [raised |-> FALSE, text |-> text]
    ELSE IF ExtractTextRaises(doc, num) THEN [raised |-> TRUE, text |-> text]
    ELSE ExtractLoop(doc, num + 1, BatchAccumulate(text, ExtractText(doc, num)))

extract_pdf_text(pdf_data) ==
    IF PdfReaderRaises(pdf_data) THEN FailureDict(pdf_data.diag)
    ELSE IF ExtractLoop(pdf_data, 0, <<>>).raised THEN FailureDict(pdf_data.diag)
    ELSE ResultDict(ExtractLoop(pdf_data, 0, <<>>).text, Len(pdf_data.pages))

\* main's except clause: print the error document, sys.exit(1).
TopLevelHandler(printed, diag) ==
    [stdout |-> printed \o <<ErrorDoc(<<"Unexpected error: ">> \o diag)>>,
     exit_code |-> <<1>>, path |-> "handler"]

\* SystemExit is caught by main's except clause like any exception.
ExitInTryCaught(doc, which) == TopLevelHandler(<<doc>>, <<"1">>)

\* print(json.dumps(...)); sys.exit(1) inside main's try block.  SystemExit
\* is not an Exception, so the except clause of main does not see it.
ExitInTry(doc, which) ==
    [stdout |-> <<doc>>, exit_code |-> <<1>>, path |-> which]

\* json.dumps(result, ensure_ascii=False) leaves non-ASCII characters as they
\* are; print raises UnicodeEncodeError when stdout cannot encode them.
Encodable(dict, ascii_stdout) ==
    ~ascii_stdout \/ \A i \in 1..Len(dict.text) : dict.text[i] \notin NonAscii

\* The exit status follows the success flag of the result.
PrintResultExitBySuccess(dict) ==
    [stdout |-> <<dict>>, exit_code |-> IF dict.success THEN <<0>> ELSE <<1>>,
     path |-> "result"]

\* print(json.dumps(result, ensure_ascii=False)), then main returns and the
\* interpreter exits with status 0.
PrintResult(dict) ==
    [stdout |-> <<dict>>, exit_code |-> <<0>>, path |-> "result"]

\* The process ends with outcome o.
Ends(o) ==
    /\ pc' = "batch_exited"
    /\ stdout' = o.stdout
    /\ exit_code' = o.exit_code
    /\ path' = o.path

\* sys.stdin.read() raises.
BatchStdinError(b) ==
    /\ program = "script"
    /\ pc = "idle"
    /\ ~b.decodable
    /\ batch_in' = b
    /\ result' = <<>>
    /\ Ends(TopLevelHandler(<<>>, StdinDiag))
    /\ UNCHANGED <<locals, httpIO, history>>

\* Nothing is left of stdin after trimming.
BatchNoInput(b) ==
    /\ program = "script"
    /\ pc = "idle"
    /\ b.decodable
    /\ StdinStrip(b).kind = "empty"
    /\ batch_in' = b
    /\ result' = <<>>
    /\ Ends(ExitInTry(ErrorDoc(<<"No input data provided">>), "no_input"))
    /\ UNCHANGED <<locals, httpIO, history>>

\* base64.b64decode raises.
BatchBadBase64(b) ==
    /\ program = "script"
    /\ pc = "idle"
    /\ b.decodable
    /\ StdinStrip(b).kind # "empty"
    /\ B64DecodeRaises(StdinStrip(b))
    /\ batch_in' = b
    /\ result' = <<>>
    /\ Ends(ExitInTry(ErrorDoc(<<"Invalid base64 data: ">> \o PaddingDiag),
                      "bad_base64"))
    /\ UNCHANGED <<locals, httpIO, history>>

\* The input decodes: extract_pdf_text returns a dict and main prints it.
BatchExtract(b) ==
    /\ program = "script"
    /\ pc = "idle"
    /\ b.decodable
    /\ StdinStrip(b).kind # "empty"
    /\ ~B64DecodeRaises(StdinStrip(b))
    /\ Encodable(extract_pdf_text(B64Decode(StdinStrip(b))), b.ascii_stdout)
    /\ batch_in' = b
    /\ result' = <<extract_pdf_text(B64Decode(StdinStrip(b)))>>
    /\ Ends(PrintResult(extract_pdf_text(B64Decode(StdinStrip(b)))))
    /\ UNCHANGED <<locals, httpIO, history>>

\* The input decodes and extract_pdf_text returns a dict, but print raises:
\* main's except clause runs.
BatchPrintError(b) ==
    /\ program = "script"
    /\ pc = "idle"
    /\ b.decodable
    /\ StdinStrip(b).kind # "empty"
    /\ ~B64DecodeRaises(StdinStrip(b))
    /\ ~Encodable(extract_pdf_text(B64Decode(StdinStrip(b))), b.ascii_stdout)
    /\ batch_in' = b
    /\ result' = <<extract_pdf_text(B64Decode(StdinStrip(b)))>>
    /\ Ends(TopLevelHandler(<<>>, EncodeDiag))
    /\ UNCHANGED <<locals, httpIO, history>>

\* The process is gone.
BatchReaped ==
    /\ pc = "batch_exited"
    /\ pc' = "idle"
    /\ ClearBatch
    /\ UNCHANGED <<locals, httpIO, history>>

-----------------------------------------------------------------------------

Next ==
    \/ \E u \in Uploads : HttpReject(u)
    \/ \E u \in Uploads : HttpReadError(u)
    \/ \E u \in Uploads : HttpOpenError(u)
    \/ \E u \in Uploads : HttpOpen(u)
    \/ HttpPage
    \/ HttpPageError
    \/ HttpNoText
    \/ HttpSuccess
    \/ HttpMetadataError
    \/ HttpServed
    \/ \E b \in BatchInputs : BatchStdinError(b)
    \/ \E b \in BatchInputs : BatchNoInput(b)
    \/ \E b \in BatchInputs : BatchBadBase64(b)
    \/ \E b \in BatchInputs : BatchExtract(b)
    \/ \E b \in BatchInputs : BatchPrintError(b)
    \/ BatchReaped

Spec == Init /\ [][Next]_vars

-----------------------------------------------------------------------------
(* What the properties below are stated with *)

IsBlank(t) == \A i \in 1..Len(t) : t[i] \in Whitespace

\* The text between the first and the last character that is not whitespace.
Trimmed(t) ==
    IF IsBlank(t) THEN <<>>
    ELSE LET lo == CHOOSE i \in 1..Len(t) :
                     t[i] \notin Whitespace /\ \A k \in 1..(i - 1) : t[k] \in Whitespace
             hi == CHOOSE j \in 1..Len(t) :
                     t[j] \notin Whitespace /\ \A k \in (j + 1)..Len(t) : t[k] \in Whitespace
         IN  [i \in 1..(hi - lo + 1) |-> t[lo + i - 1]]

\* Each page that is not blank, followed by a newline, in page order.
RECURSIVE PagesInOrder(_)
PagesInOrder(pages) ==
    IF pages = <<>> THEN <<>>
    ELSE (IF IsBlank(Head(pages)) THEN <<>> ELSE Head(pages) \o <<"\n">>)
         \o PagesInOrder(Tail(pages))

\* The library opens the document and yields a text for every page.
Parsed(doc) == doc.fault.at \notin {"open", "page"}

AllBlank(doc) == \A i \in 1..Len(doc.pages) : IsBlank(doc.pages[i])

HasPdfSuffix(name) ==
    /\ Len(name) >= 4
    /\ name[Len(name) - 3] = "."
    /\ name[Len(name) - 2] \in {"p", "P"}
    /\ name[Len(name) - 1] \in {"d", "D"}
    /\ name[Len(name)] \in {"f", "F"}

HttpDone == pc = "http_done"

\* The request reached the parsing library.
HttpExtracted == pc = "http_done" /\ opens = 1

BatchExited == pc = "batch_exited"

\* extract_pdf_text was called and returned.
BatchExtracted == pc = "batch_exited" /\ result # <<>>

body == response[1].body

status == response[1].status

batch_data == batch_in.data

-----------------------------------------------------------------------------
(* Properties *)

\* C1: a document that opens and whose pages are all blank is reported with
\* success = false and its real page count by both front ends, and the HTTP
\* body carries a suggestion.
C1_EmptyTextClassification ==
    /\ (/\ HttpExtracted
        /\ Parsed(upload.content)
        /\ upload.content.pages # <<>>
        /\ AllBlank(upload.content))
         => /\ Opt(body, "success") = <<FALSE>>
            /\ Opt(body, "pages") = <<Len(upload.content.pages)>>
            /\ "suggestion" \in DOMAIN body
    /\ (/\ BatchExtracted
        /\ Parsed(batch_data)
        /\ batch_data.pages # <<>>
        /\ AllBlank(batch_data))
         => /\ result[1].success = FALSE
            /\ result[1].pages = Len(batch_data.pages)

\* C2: a batch run ends with status 0 exactly when stdin held something after
\* trimming, base64 decoding succeeded and no exception reached main's
\* handler, whatever the extraction outcome; otherwise it ends with status 1,
\* and then the one document printed is the error shape.
C2_BatchExitStatus ==
    BatchExited =>
        LET given == batch_in.decodable /\ (batch_in.kind # "empty")
            decoded == given /\ (batch_in.kind = "b64")
            escaped == path = "handler"
        IN  /\ exit_code \in {<<0>>, <<1>>}
            /\ (exit_code = <<0>>) <=> (decoded /\ ~escaped)
            /\ (exit_code = <<1>>) <=>
                 \/ batch_in.decodable /\ batch_in.kind = "empty"
                 \/ batch_in.decodable /\ batch_in.kind = "badpad"
                 \/ escaped
            /\ ~batch_in.decodable => escaped
            /\ (exit_code = <<1>>) =>
                 /\ Len(stdout) = 1
                 /\ stdout[1].success = FALSE
                 /\ stdout[1].text = <<>>
                 /\ stdout[1].pages = 0
                 /\ stdout[1].text_length = 0
                 /\ stdout[1].error # <<>>

\* C2 witness: a run that ended with status 0 although extraction failed.
C2_Witness ==
    /\ BatchExtracted
    /\ exit_code = <<0>>
    /\ result[1].success = FALSE
    /\ stdout = <<result[1]>>

\* What C3 says of a request that fails a check: the first failing check
\* decides the answer, a 400 with only an error, and nothing is read or parsed.
RejectedInOrder ==
    /\ ~upload.present
         => response = <<[status |-> 400, body |-> [error |-> <<"No file provided">>]]>>
    /\ (upload.present /\ upload.filename = <<>>)
         => response = <<[status |-> 400, body |-> [error |-> <<"No file selected">>]]>>
    /\ (upload.present /\ upload.filename # <<>> /\ ~HasPdfSuffix(upload.filename))
         => response = <<[status |-> 400, body |-> [error |-> <<"File must be a PDF">>]]>>
    /\ ~(upload.present /\ HasPdfSuffix(upload.filename))
         => reads = 0 /\ opens = 0

Validated == upload.present /\ upload.filename # <<>> /\ HasPdfSuffix(upload.filename)

\* C3 as stated: ... and when all three checks pass the library is invoked
\* exactly once.
C3_ValidationOrderAsStated ==
    HttpDone => /\ RejectedInOrder
                /\ Validated => opens = 1

\* C3 as amended: ... and when all three checks pass the upload is read once,
\* and the library is invoked exactly once if the read succeeds and not at
\* all if the read raises (the generic 500 answer).
C3_ValidationOrder ==
    /\ HttpDone =>
         /\ RejectedInOrder
         /\ Validated =>
              /\ reads = 1
              /\ upload.readable => opens = 1
              /\ ~upload.readable =>
                   /\ opens = 0
                   /\ status = 500
                   /\ DOMAIN body = {"error"}
    /\ opens \in {0, 1}

\* C3 witness: an upper-case .PDF name passed the checks and reached the library.
C3_Witness ==
    /\ HttpDone
    /\ upload.filename = <<"A", ".", "P", "D", "F">>
    /\ reads = 1
    /\ opens = 1

\* C4: for a validated upload the answer is 200 with success = true iff the
\* library raised nowhere and the trimmed text is not empty; 200 with
\* success = false, "No text found in PDF", text_length 0 and text "" iff the
\* library raised nowhere and the trimmed text is empty; 500 with
\* success = false and "PDF processing failed: <diagnostic>" iff the library
\* raised while opening, extracting a page or reading metadata; success = true
\* comes with status 200 only.
C4_OutcomeToStatus ==
    (HttpDone /\ Validated) =>
        LET doc == upload.content
            text == Trimmed(PagesInOrder(doc.pages))
            raised == /\ upload.readable
                      /\ \/ doc.fault.at \in {"open", "page"}
                         \/ doc.fault.at = "meta" /\ text # <<>>
            parsed == upload.readable /\ ~raised
        IN  /\ (status = 200 /\ Opt(body, "success") = <<TRUE>>)
                 <=> (parsed /\ text # <<>>)
            /\ (/\ status = 200
                /\ Opt(body, "success") = <<FALSE>>
                /\ Opt(body, "error") = << <<"No text found in PDF">> >>
                /\ Opt(body, "text_length") = <<0>>
                /\ Opt(body, "extracted_text") = << <<>> >>)
                 <=> (parsed /\ text = <<>>)
            /\ (/\ status = 500
                /\ Opt(body, "success") = <<FALSE>>
                /\ Opt(body, "error") = << <<"PDF processing failed: ">> \o doc.diag >>)
                 <=> raised
            /\ Opt(body, "success") = <<TRUE>> => status = 200

\* C4 witness: a document that parsed but has no text was answered with 200.
C4_Witness ==
    /\ HttpExtracted
    /\ Validated
    /\ Parsed(upload.content)
    /\ upload.content.pages # <<>>
    /\ AllBlank(upload.content)
    /\ status = 200

\* C5: for bytes the library cannot open, extract returns success = false,
\* page count 0 and an error message that is not empty, whatever the
\* diagnostic, an empty one included.
C5_StructuralFailure ==
    /\ (BatchExtracted /\ PdfReaderRaises(batch_data))
         => /\ result[1].success = FALSE
            /\ result[1].pages = 0
            /\ result[1].error # <<>>
    /\ (HttpExtracted /\ PdfReaderRaises(upload.content))
         => /\ Opt(body, "success") = <<FALSE>>
            /\ Opt(body, "pages") \in {<<>>, <<0>>}
            /\ body.error # <<>>

\* C6: every result that carries text fields has text_length equal to the
\* length of its text and pages >= 0, and an unsuccessful one has the empty
\* text and length 0; no text gathered before a page raised is returned.
TextFieldsAgree(doc, textKey) ==
    "text_length" \in DOMAIN doc =>
        /\ doc.text_length = Len(doc[textKey])
        /\ doc.pages >= 0
        /\ ~doc.success => doc[textKey] = <<>> /\ doc.text_length = 0

C6_ResultInvariant ==
    /\ HttpDone =>
         /\ TextFieldsAgree(body, "extracted_text")
         /\ Opt(body, "success") # <<TRUE>>
              => Opt(body, "extracted_text") \in {<<>>, << <<>> >>}
    /\ BatchExited =>
         /\ \A i \in 1..Len(stdout) : TextFieldsAgree(stdout[i], "text")
         /\ \A i \in 1..Len(result) : TextFieldsAgree(result[i], "text")
         /\ \A i \in 1..Len(stdout) : ~stdout[i].success => stdout[i].text = <<>>

\* C6 witness: a page raised after an earlier page had given text, and the
\* result printed holds no text.
C6_Witness ==
    /\ BatchExtracted
    /\ batch_data.fault.at = "page"
    /\ batch_data.fault.idx = 2
    /\ ~IsBlank(batch_data.pages[1])
    /\ stdout = <<result[1]>>
    /\ result[1].text = <<>>

\* C7: a batch run has printed exactly one JSON document when it ends, on
\* every path, sys.exit(1) inside the try block included, and the document
\* has an error key iff its success is false.
C7_OneDocument ==
    /\ BatchExited =>
         /\ Len(stdout) = 1
         /\ ("error" \in DOMAIN stdout[1]) <=> (stdout[1].success = FALSE)
         /\ path \in {"no_input", "bad_base64", "result", "handler"}
    /\ ~BatchExited => stdout = <<>>

\* C7 witness: the run left through sys.exit(1) inside the try block.
C7_Witness ==
    /\ BatchExited
    /\ path \in {"no_input", "bad_base64"}
    /\ exit_code = <<1>>
    /\ Len(stdout) = 1

\* C8: for a document that parsed, the text returned is the trimmed
\* concatenation, in page order, of every page that is not blank followed by a
\* newline, and it is not empty iff some page is not blank.
TextInPageOrder(doc, text) ==
    /\ text = Trimmed(PagesInOrder(doc.pages))
    /\ (text # <<>>) <=> ~AllBlank(doc)

C8_PageOrder ==
    /\ (HttpExtracted /\ Parsed(upload.content) /\ "extracted_text" \in DOMAIN body)
         => TextInPageOrder(upload.content, body.extracted_text)
    /\ (BatchExtracted /\ Parsed(batch_data))
         => TextInPageOrder(batch_data, result[1].text)

\* C8 witness: two pages with different text were answered with both texts.
C8_Witness ==
    /\ HttpExtracted
    /\ upload.content.pages = << <<" ", "b", " ">>, <<"ue">> >>
    /\ status = 200
    /\ body.extracted_text = <<"b", " ", "\n", "ue">>

\* C9: on the same bytes the HTTP front end reports the same success value
\* as the batch routine, and the same page count, text and text length
\* wherever it reports them.
SameWhereReported(h, b) == h = <<>> \/ h = b

C9_FrontEndEquivalence ==
    HttpExtracted =>
        LET h == Summary(body, "extracted_text")
            b == Summary(extract_pdf_text(upload.content), "text")
        IN  /\ h.success = b.success
            /\ SameWhereReported(h.pages, b.pages)
            /\ SameWhereReported(h.text, b.text)
            /\ SameWhereReported(h.text_length, b.text_length)

====
